---- MODULE Spec2Model ----
(***************************************************************************)
(* Model of spotipy/objects/token.py: the ClientCredentials and            *)
(* UserCredentials records, their constructors, is_expired, the accessors, *)
(* refresh and the two factories, run as asyncio coroutines on one event   *)
(* loop.  A step of the model is what the event loop runs between two      *)
(* suspend points (the awaits of session.post(...) and response.json()).   *)
(*                                                                         *)
(* One instance under observation (inst) is built by a direct constructor  *)
(* call and is the target of refresh; every factory call returns another   *)
(* instance, held in the finished task until the slot is called again.     *)
(***************************************************************************)
EXTENDS Integers, FiniteSets, Sequences, TLC

VARIABLES now, inst, tasks, applied, calls, out

vars == <<now, inst, tasks, applied, calls, out>>

----------------------------------------------------------------------------
(* Bounds of the model *)

MaxTime == 1
MaxExpires == 1
MaxCalls == 2

\* Every call runs as a coroutine of its own, numbered in call order.
Tasks == 1..MaxCalls

----------------------------------------------------------------------------
(* Values *)

Absent == "<absent>"
None == "<None>"
NoAttr == "<no attribute>"

AccessTokens == {"AT1", "AT2"}
TokenTypes == {"Bearer"}
Scopes == {"user-read"}
RefreshTokens == {"RT1", "RT2"}
ErrorVals == {"", "invalid_grant"}
ExpiresVals == {0, MaxExpires}
ClientIds == {"cid"}
ClientSecrets == {"secret"}
Statuses == {200, 400}

\* A parsed JSON body / payload dict: the keys it has and their values.
Body(K, a, tt, e, s, r, err) ==
    [keys          |-> K,
     access_token  |-> IF "access_token" \in K THEN a ELSE Absent,
     token_type    |-> IF "token_type" \in K THEN tt ELSE Absent,
     expires_in    |-> IF "expires_in" \in K THEN e ELSE 0,
     scope         |-> IF "scope" \in K THEN s ELSE Absent,
     refresh_token |-> IF "refresh_token" \in K THEN r ELSE Absent,
     error         |-> IF "error" \in K THEN err ELSE Absent]

\* The bodies the model draws for a grant: every key the grant's code can
\* read may be present or absent, except that at most one of the keys it
\* reads with data[...] is missing: the code raises at the first such key it
\* reads and never looks at a later one, so a body lacking several behaves as
\* the body lacking only the first.  The client-credentials code reads
\* neither scope nor refresh_token, so its bodies leave them out.
Required(grant) ==
    IF grant = "client_credentials"
    THEN {"access_token", "token_type", "expires_in"}
    ELSE {"access_token", "token_type", "expires_in", "scope"}

Optional(grant) ==
    IF grant = "client_credentials" THEN {"error"} ELSE {"refresh_token", "error"}

KeySets(grant) ==
    { (Required(grant) \ M) \cup O :
        M \in {{}} \cup {{k} : k \in Required(grant)},
        O \in SUBSET Optional(grant) }

BodiesOf(grant) ==
    { Body(K, a, tt, e, s, r, err) :
        K \in KeySets(grant), a \in AccessTokens, tt \in TokenTypes, e \in ExpiresVals,
        s \in Scopes, r \in RefreshTokens, err \in ErrorVals }

ClientBodies == BodiesOf("client_credentials")
UserBodies == BodiesOf("refresh_token")
Bodies(grant) == IF grant = "client_credentials" THEN ClientBodies ELSE UserBodies

Grant(cls) == IF cls = "ClientCredentials" THEN "client_credentials" ELSE "refresh_token"

\* dict.get(key): the value, or None when the key is absent.
Get(data, key) == IF key \in data.keys THEN data[key] ELSE None

\* Python truthiness of the value dict.get returns for a string field.
Truthy(v) == v # None /\ v # ""

----------------------------------------------------------------------------
(* Exceptions *)

NoExc == [type |-> "", key |-> "", status |-> 0, error |-> ""]
KeyError(key) == [type |-> "KeyError", key |-> key, status |-> 0, error |-> ""]
AuthenticationError(status, data) ==
    [type |-> "AuthenticationError", key |-> "", status |-> status, error |-> data.error]

----------------------------------------------------------------------------
(* The credential records *)

\* wr: for each field, the number of the refresh response that wrote it last
\* (0: the constructor).
Wr0 == [access_token |-> 0, token_type |-> 0, scope |-> 0, expires_in |-> 0,
        last_authorized_time |-> 0]

NoInstance ==
    [cls |-> "None", access_token |-> NoAttr, token_type |-> NoAttr, expires_in |-> 0,
     scope |-> NoAttr, refresh_token |-> NoAttr, client_id |-> NoAttr,
     client_secret |-> NoAttr, last_authorized_time |-> 0, wr |-> Wr0]

\* One statement `self._<field> = data["<key>"]` of a method body: r is the
\* pair (self, pending exception); a missing key raises KeyError and the rest
\* of the body is skipped.
Assign(r, field, data, n) ==
    IF r.exc # NoExc THEN r
    ELSE IF field \notin data.keys THEN [self |-> r.self, exc |-> KeyError(field)]
    ELSE [self |-> [r.self EXCEPT ![field] = data[field], !.wr[field] = n], exc |-> NoExc]

\* `self._last_authorized_time = time.time()`
Stamp(r, t, n) ==
    IF r.exc # NoExc THEN r
    ELSE [self |-> [r.self EXCEPT !.last_authorized_time = t,
                                  !.wr.last_authorized_time = n],
          exc |-> NoExc]

Attr(r, field, v) ==
    IF r.exc # NoExc THEN r ELSE [self |-> [r.self EXCEPT ![field] = v], exc |-> NoExc]

ClientCredentials_init(data, client_id, client_secret, t) ==
    LET r0 == [self |-> [NoInstance EXCEPT !.cls = "ClientCredentials"], exc |-> NoExc]
        r1 == Assign(r0, "access_token", data, 0)
        r2 == Assign(r1, "token_type", data, 0)
        r3 == Assign(r2, "expires_in", data, 0)
        r4 == Attr(r3, "client_id", client_id)
        r5 == Attr(r4, "client_secret", client_secret)
    IN  Stamp(r5, t, 0)

\* UserCredentials.__init__ reading refresh_token with data["refresh_token"].
UserCredentials_init_rt_required(data, client_id, client_secret, t) ==
    LET r0 == [self |-> [NoInstance EXCEPT !.cls = "UserCredentials"], exc |-> NoExc]
        r1 == Assign(r0, "access_token", data, 0)
        r2 == Assign(r1, "token_type", data, 0)
        r3 == Assign(r2, "expires_in", data, 0)
        r4 == Assign(r3, "scope", data, 0)
        r5 == Assign(r4, "refresh_token", data, 0)
        r6 == Attr(r5, "client_id", client_id)
        r7 == Attr(r6, "client_secret", client_secret)
    IN  Stamp(r7, t, 0)

UserCredentials_init(data, client_id, client_secret, t) ==
    LET r0 == [self |-> [NoInstance EXCEPT !.cls = "UserCredentials"], exc |-> NoExc]
        r1 == Assign(r0, "access_token", data, 0)
        r2 == Assign(r1, "token_type", data, 0)
        r3 == Assign(r2, "expires_in", data, 0)
        r4 == Assign(r3, "scope", data, 0)
        r5 == Attr(r4, "refresh_token", Get(data, "refresh_token"))
        r6 == Attr(r5, "client_id", client_id)
        r7 == Attr(r6, "client_secret", client_secret)
    IN  Stamp(r7, t, 0)

\* cls(data, client_id, client_secret); a constructor that raises yields no object.
New(cls, data, client_id, client_secret, t) ==
    LET r == IF cls = "ClientCredentials"
             THEN ClientCredentials_init(data, client_id, client_secret, t)
             ELSE UserCredentials_init(data, client_id, client_secret, t)
    IN  IF r.exc # NoExc THEN [self |-> NoInstance, exc |-> r.exc] ELSE r

\* is_expired with the boundary excluded (`>` for `>=`).
is_expired_strict(self, t) == (t - self.last_authorized_time) > self.expires_in

is_expired(self, t) == (t - self.last_authorized_time) >= self.expires_in

\* The error check made on the transport status instead of the body.
HasError_status(status, data) == status >= 400

\* `if data.get("error")`
HasError(status, data) == Truthy(Get(data, "error"))

----------------------------------------------------------------------------
(* The bodies of the coroutines *)

NoReq == [grant_type |-> "client_credentials", refresh_token |-> Absent, client_id |-> "", client_secret |-> ""]

\* The form data ClientCredentials.refresh posts.
ClientCredentials_request(self) ==
    [grant_type |-> "client_credentials", refresh_token |-> Absent,
     client_id |-> self.client_id, client_secret |-> self.client_secret]

\* The form data UserCredentials.refresh posts.
UserCredentials_request(self) ==
    [grant_type |-> "refresh_token", refresh_token |-> self.refresh_token,
     client_id |-> self.client_id, client_secret |-> self.client_secret]

\* ClientCredentials.refresh without the reset of the expiry clock.
ClientCredentials_refresh_no_stamp(self, status, data, t, n) ==
    IF HasError(status, data)
    THEN [self |-> self, exc |-> AuthenticationError(status, data)]
    ELSE LET r0 == [self |-> self, exc |-> NoExc]
             r1 == Assign(r0, "access_token", data, n)
             r2 == Assign(r1, "token_type", data, n)
         IN  Assign(r2, "expires_in", data, n)

\* ClientCredentials.refresh with the clock reset moved above the
\* expires_in assignment.
ClientCredentials_refresh_reordered(self, status, data, t, n) ==
    IF HasError(status, data)
    THEN [self |-> self, exc |-> AuthenticationError(status, data)]
    ELSE LET r0 == [self |-> self, exc |-> NoExc]
             r1 == Assign(r0, "access_token", data, n)
             r2 == Assign(r1, "token_type", data, n)
             r3 == Stamp(r2, t, n)
         IN  Assign(r3, "expires_in", data, n)

\* ClientCredentials.refresh from the return of `await response.json()` to
\* the end of the block; n numbers the response, t is time.time().
ClientCredentials_refresh(self, status, data, t, n) ==
    IF HasError(status, data)
    THEN [self |-> self, exc |-> AuthenticationError(status, data)]
    ELSE LET r0 == [self |-> self, exc |-> NoExc]
             r1 == Assign(r0, "access_token", data, n)
             r2 == Assign(r1, "token_type", data, n)
             r3 == Assign(r2, "expires_in", data, n)
         IN  Stamp(r3, t, n)

\* UserCredentials.refresh that also takes the response's refresh_token.
UserCredentials_refresh_takes_rt(self, status, data, t, n) ==
    IF HasError(status, data)
    THEN [self |-> self, exc |-> AuthenticationError(status, data)]
    ELSE LET r0 == [self |-> self, exc |-> NoExc]
             r1 == Assign(r0, "access_token", data, n)
             r2 == Assign(r1, "token_type", data, n)
             r3 == Assign(r2, "scope", data, n)
             r4 == Assign(r3, "expires_in", data, n)
             r5 == Attr(r4, "refresh_token", Get(data, "refresh_token"))
         IN  Stamp(r5, t, n)

\* UserCredentials.refresh with the clock reset above the error check.
UserCredentials_refresh_stamp_first(self, status, data, t, n) ==
    LET s0 == Stamp([self |-> self, exc |-> NoExc], t, n).self
    IN  IF HasError(status, data)
        THEN [self |-> s0, exc |-> AuthenticationError(status, data)]
        ELSE LET r0 == [self |-> s0, exc |-> NoExc]
                 r1 == Assign(r0, "access_token", data, n)
                 r2 == Assign(r1, "token_type", data, n)
                 r3 == Assign(r2, "scope", data, n)
             IN  Assign(r3, "expires_in", data, n)

\* UserCredentials.refresh writing the expiry clock before the token fields.
UserCredentials_refresh_expiry_first(self, status, data, t, n) ==
    IF HasError(status, data)
    THEN [self |-> self, exc |-> AuthenticationError(status, data)]
    ELSE LET r0 == [self |-> self, exc |-> NoExc]
             r1 == Assign(r0, "expires_in", data, n)
             r2 == Stamp(r1, t, n)
             r3 == Assign(r2, "access_token", data, n)
             r4 == Assign(r3, "token_type", data, n)
         IN  Assign(r4, "scope", data, n)

\* UserCredentials.refresh, likewise.
UserCredentials_refresh(self, status, data, t, n) ==
    IF HasError(status, data)
    THEN [self |-> self, exc |-> AuthenticationError(status, data)]
    ELSE LET r0 == [self |-> self, exc |-> NoExc]
             r1 == Assign(r0, "access_token", data, n)
             r2 == Assign(r1, "token_type", data, n)
             r3 == Assign(r2, "scope", data, n)
             r4 == Assign(r3, "expires_in", data, n)
         IN  Stamp(r4, t, n)

refresh(self, status, data, t, n) ==
    IF self.cls = "ClientCredentials"
    THEN ClientCredentials_refresh(self, status, data, t, n)
    ELSE UserCredentials_refresh(self, status, data, t, n)

\* ClientCredentials.from_client_secret from the return of response.json() on.
from_client_secret(client_id, client_secret, status, data, t) ==
    IF HasError(status, data)
    THEN [self |-> NoInstance, exc |-> AuthenticationError(status, data)]
    ELSE New("ClientCredentials", data, client_id, client_secret, t)

\* from_refresh_token without the attach step.
Attach_skipped(data, refresh_token) == data

\* `data["refresh_token"] = refresh_token`
Attach(data, refresh_token) ==
    [data EXCEPT !.keys = @ \cup {"refresh_token"}, !.refresh_token = refresh_token]

\* UserCredentials.from_refresh_token from the return of response.json() on.
from_refresh_token(client_id, client_secret, refresh_token, status, data, t) ==
    IF HasError(status, data)
    THEN [self |-> NoInstance, exc |-> AuthenticationError(status, data)]
    ELSE New("UserCredentials", Attach(data, refresh_token), client_id, client_secret, t)

----------------------------------------------------------------------------------------------------------------------------------------
(* State *)

\* A coroutine between its call and its return: where it is suspended, the
\* form data it posted, the response it holds, the number of POSTs it issued
\* and how many refresh responses had been applied when it was called.
IdleTask == [pc |-> "idle", kind |-> "", req |-> NoReq, posts |-> 0, seq0 |-> 0]

\* What the call that has just returned handed to its caller (NoOut when no
\* call has just returned): the call, the class it was made on, the exception raised, the
\* value returned (flag: a bool, str: a string, int: an integer, obj: an
\* instance; for is_expired obj is the instance asked), and for a coroutine the form data it had posted, its POST
\* count and the number of its response.  seen is what data.get returns for
\* error and refresh_token on the dict the call consumed, and keys the keys
\* of the payload a constructor call was given.
NoSeen == [error |-> None, refresh_token |-> None]
NoOut ==
    [op |-> "", cls |-> "", exc |-> NoExc, flag |-> FALSE, str |-> "", int |-> 0,
     obj |-> NoInstance,
     req |-> NoReq, posts |-> 0, seq0 |-> 0, seq |-> 0, seen |-> NoSeen, keys |-> {}]

Seen(data) ==
    [error |-> Get(data, "error"), refresh_token |-> Get(data, "refresh_token")]

Init ==
    /\ now = 0
    /\ inst = NoInstance
    /\ tasks = [t \in Tasks |-> IdleTask]
    /\ applied = 0
    /\ calls = 0
    /\ out = NoOut

\* time.time() read later returns a later or equal value.
Tick ==
    /\ out = NoOut
    /\ now < MaxTime
    /\ now' = now + 1
    /\ UNCHANGED <<inst, tasks, applied, calls, out>>

\* The caller takes what the call handed it; until then nothing else runs
\* (the call has just returned to it), but for asking a factory's result
\* whether it is expired.
Resume ==
    /\ out # NoOut
    /\ out' = NoOut
    /\ UNCHANGED <<now, inst, tasks, applied, calls>>

\* A direct constructor call cls(data, client_id, client_secret).
Construct(cls, data, client_id, client_secret) ==
    /\ out = NoOut
    /\ inst = NoInstance
    /\ LET r == New(cls, data, client_id, client_secret, now)
       IN  /\ inst' = r.self
           /\ out' = [NoOut EXCEPT !.op = "__init__", !.cls = cls, !.exc = r.exc,
                                   !.seen = Seen(data), !.keys = data.keys]
    /\ UNCHANGED <<now, tasks, applied, calls>>

Factories == {"from_client_secret", "from_refresh_token"}
Coroutines == {"refresh"} \cup Factories

\* The objects the caller can ask: the observed instance (0) and the instance
\* a factory has just returned (1).
Obj(h) == IF h = 0 \/ out.op \notin Factories THEN inst ELSE out.obj

IsExpiredCall(h) ==
    /\ IF h = 1 THEN out.op \in Factories ELSE out = NoOut
    /\ Obj(h) # NoInstance
    /\ out' = [NoOut EXCEPT !.op = "is_expired", !.cls = Obj(h).cls, !.obj = Obj(h),
                            !.flag = is_expired(Obj(h), now)]
    /\ UNCHANGED <<now, inst, tasks, applied, calls>>

\* The read-only properties of the class.
Accessors(cls) ==
    IF cls = "UserCredentials"
    THEN {"access_token", "token_type", "scope", "expires_in"}
    ELSE {"access_token", "token_type", "expires_in"}

\* Reading one property of the observed instance.
ReadAccessor(field) ==
    /\ out = NoOut
    /\ inst # NoInstance
    /\ field \in Accessors(inst.cls)
    /\ out' = IF field = "expires_in"
              THEN [NoOut EXCEPT !.op = field, !.cls = inst.cls, !.int = inst[field]]
              ELSE [NoOut EXCEPT !.op = field, !.cls = inst.cls, !.str = inst[field]]
    /\ UNCHANGED <<now, inst, tasks, applied, calls>>

\* The coroutines suspended on the HTTP round-trip.  The caller awaits a
\* factory call before it makes another call (a factory shares no field with
\* any other coroutine); refresh calls on the instance may overlap.
InFlight == {t \in Tasks : tasks[t].pc = "post"}

\* refresh up to its first suspend point: the form data is built from the
\* instance and the POST is issued.
RefreshCall(t) ==
    /\ out = NoOut
    /\ t = calls + 1
    /\ calls < MaxCalls
    /\ \A u \in InFlight : tasks[u].kind = "refresh"
    /\ inst # NoInstance
    /\ tasks' = [tasks EXCEPT ![t] =
                   [IdleTask EXCEPT !.pc = "post", !.kind = "refresh",
                                    !.req = IF inst.cls = "ClientCredentials"
                                            THEN ClientCredentials_request(inst)
                                            ELSE UserCredentials_request(inst),
                                    !.posts = 1, !.seq0 = applied]]
    /\ calls' = calls + 1
    /\ UNCHANGED <<now, inst, applied, out>>

FromClientSecretCall(t, client_id, client_secret) ==
    /\ out = NoOut
    /\ t = calls + 1
    /\ calls < MaxCalls
    /\ InFlight = {}
    /\ tasks' = [tasks EXCEPT ![t] =
                   [IdleTask EXCEPT !.pc = "post", !.kind = "from_client_secret",
                                    !.req = [grant_type |-> "client_credentials",
                                             refresh_token |-> Absent,
                                             client_id |-> client_id,
                                             client_secret |-> client_secret],
                                    !.posts = 1, !.seq0 = applied]]
    /\ calls' = calls + 1
    /\ UNCHANGED <<now, inst, applied, out>>

FromRefreshTokenCall(t, client_id, client_secret, refresh_token) ==
    /\ out = NoOut
    /\ t = calls + 1
    /\ calls < MaxCalls
    /\ InFlight = {}
    /\ tasks' = [tasks EXCEPT ![t] =
                   [IdleTask EXCEPT !.pc = "post", !.kind = "from_refresh_token",
                                    !.req = [grant_type |-> "refresh_token",
                                             refresh_token |-> refresh_token,
                                             client_id |-> client_id,
                                             client_secret |-> client_secret],
                                    !.posts = 1, !.seq0 = applied]]
    /\ calls' = calls + 1
    /\ UNCHANGED <<now, inst, applied, out>>

Outcome(k, r, data, n) ==
    [NoOut EXCEPT !.op = k.kind, !.cls = r.self.cls, !.exc = r.exc, !.req = k.req, !.posts = k.posts,
                  !.seq0 = k.seq0, !.seq = n, !.seen = Seen(data)]

\* The awaits of `session.post(...)` and `response.json()` resume with the
\* response and its parsed body (nothing between them reads or writes a
\* field); the rest of the block runs without suspending and the coroutine
\* returns or raises.
Response(t, status, data) ==
    /\ out = NoOut
    /\ tasks[t].pc = "post"
    /\ tasks' = [tasks EXCEPT ![t] = [IdleTask EXCEPT !.pc = "done"]]
    /\ LET k == tasks[t]
       IN  \/ /\ k.kind = "refresh"
              /\ LET r == refresh(inst, status, data, now, applied + 1)
                 IN  /\ inst' = r.self
                     /\ out' = Outcome(k, r, data, applied + 1)
              /\ applied' = applied + 1
           \/ /\ k.kind = "from_client_secret"
              /\ LET r == from_client_secret(k.req.client_id, k.req.client_secret,
                                             status, data, now)
                 IN  out' = [Outcome(k, r, data, 0) EXCEPT !.obj = r.self]
              /\ UNCHANGED <<inst, applied>>
           \/ /\ k.kind = "from_refresh_token"
              /\ LET r == from_refresh_token(k.req.client_id, k.req.client_secret,
                                             k.req.refresh_token, status, data, now)
                 IN  out' = [Outcome(k, r, data, 0) EXCEPT !.obj = r.self]
              /\ UNCHANGED <<inst, applied>>
    /\ UNCHANGED <<now, calls>>

Next ==
    \/ Tick
    \/ Resume
    \/ \E cls \in {"ClientCredentials", "UserCredentials"},
          client_id \in ClientIds, client_secret \in ClientSecrets :
            \E data \in Bodies(Grant(cls)) : Construct(cls, data, client_id, client_secret)
    \/ \E h \in {0, 1} : IsExpiredCall(h)
    \/ \E field \in {"access_token", "token_type", "scope", "expires_in"} : ReadAccessor(field)
    \/ \E t \in Tasks : RefreshCall(t)
    \/ \E t \in Tasks, client_id \in ClientIds, client_secret \in ClientSecrets :
            FromClientSecretCall(t, client_id, client_secret)
    \/ \E t \in Tasks, client_id \in ClientIds, client_secret \in ClientSecrets,
          refresh_token \in RefreshTokens :
            FromRefreshTokenCall(t, client_id, client_secret, refresh_token)
    \/ \E t \in Tasks, status \in Statuses :
            \E data \in Bodies(tasks[t].req.grant_type) : Response(t, status, data)

Spec == Init /\ [][Next]_vars

----------------------------------------------------------------------------
(* Properties *)

\* data.get("error") of the body the step just taken consumed.
SeenError == out.seen.error

\* data.get("refresh_token") of that body.
SeenRefreshToken == out.seen.refresh_token

\* The fields a refresh of the class writes from the response.
WrittenFields(cls) ==
    IF cls = "UserCredentials"
    THEN {"access_token", "token_type", "scope", "expires_in"}
    ELSE {"access_token", "token_type", "expires_in"}

\* C1: a body with a truthy error makes refresh and both factories raise
\* AuthenticationError, whatever the status, after the one POST of the call
\* and with no instance returned; a refresh that consumed such a body leaves
\* every field of the instance as it was.
C1_ErrorBodyFails ==
    /\ [](out.op \in Coroutines /\ Truthy(SeenError)
            => /\ out.exc.type = "AuthenticationError"
               /\ out.exc.error = out.seen.error
               /\ out.posts = 1
               /\ out.obj = NoInstance)
    /\ [][(out'.op = "refresh" /\ Truthy(out'.seen.error)) => inst' = inst]_vars

C1_Witness ==
    /\ out.op = "refresh"
    /\ out.cls = "UserCredentials"
    /\ out.exc.type = "AuthenticationError"
    /\ out.exc.status = 200
    /\ SeenError = "invalid_grant"

\* C2: the refresh_token of an instance never changes once it is constructed,
\* and the form data of every UserCredentials.refresh in flight carries it.
C2_RefreshTokenKept ==
    /\ [][inst # NoInstance => inst'.refresh_token = inst.refresh_token]_vars
    /\ [](\A t \in Tasks :
            (tasks[t].pc = "post" /\ tasks[t].kind = "refresh" /\ inst.cls = "UserCredentials")
                => tasks[t].req.refresh_token = inst.refresh_token)

C2_Witness ==
    /\ out.op = "refresh"
    /\ out.cls = "UserCredentials"
    /\ out.exc = NoExc
    /\ out.seq = 2
    /\ SeenRefreshToken \notin {None, inst.refresh_token}
    /\ out.req.refresh_token = inst.refresh_token
    /\ inst.refresh_token \in RefreshTokens

\* C3: the instance a successful from_refresh_token returns holds the
\* refresh token the call was given, whatever the response carried.
C3_FactoryKeepsRefreshToken ==
    (out.op = "from_refresh_token" /\ out.exc = NoExc)
        => /\ out.obj.cls = "UserCredentials"
           /\ out.obj.refresh_token = out.req.refresh_token

C3_Witness ==
    /\ out.op = "from_refresh_token"
    /\ out.exc = NoExc
    /\ SeenRefreshToken \notin {None, out.req.refresh_token}
    /\ out.obj.refresh_token = out.req.refresh_token

\* C4: is_expired returns true exactly when now - last_authorized_time >=
\* expires_in (true on the boundary), and the call changes no field.
C4_IsExpired ==
    /\ [](out.op = "is_expired"
            => out.flag = (now - out.obj.last_authorized_time >= out.obj.expires_in))
    /\ [][out'.op = "is_expired"
            => /\ UNCHANGED <<now, inst, tasks, applied, calls>>
               /\ out'.obj \in {inst, out.obj}]_vars

C4_Witness ==
    /\ out.op = "is_expired"
    /\ out.cls = "UserCredentials"
    /\ out.flag
    /\ out.obj.expires_in > 0
    /\ now - out.obj.last_authorized_time = out.obj.expires_in

\* The instance the step just taken built or refreshed.
Fresh == IF out.op \in Factories THEN out.obj ELSE inst

\* C5: right after a constructor, a factory or a refresh has succeeded, an
\* instance whose expires_in is positive is not expired.
C5_FreshNotExpired ==
    (out.op \in {"__init__"} \cup Coroutines /\ out.exc = NoExc /\ Fresh.expires_in > 0)
        => ~is_expired(Fresh, now)

C5_Witness ==
    /\ out.op = "refresh"
    /\ out.exc = NoExc
    /\ now > 0
    /\ inst.expires_in > 0
    /\ inst.last_authorized_time = now

\* C6: an expired instance stays expired in every step but the one in which
\* a refresh on it succeeds.
C6_ExpiredUntilRefreshed ==
    [][(inst # NoInstance /\ is_expired(inst, now) /\ ~is_expired(inst', now'))
          => (out'.op = "refresh" /\ out'.exc = NoExc)]_vars

C6_Witness ==
    /\ out.op = "refresh"
    /\ out.exc.type = "AuthenticationError"
    /\ inst.expires_in > 0
    /\ is_expired(inst, now)

\* C7: in every state between two steps expires_in and last_authorized_time
\* were last written by the same call.
C7_ExpiryPairWrittenTogether ==
    inst.wr.expires_in = inst.wr.last_authorized_time

C7_Witness ==
    /\ out.op = "refresh"
    /\ out.exc.type = "KeyError"
    /\ out.exc.key = "token_type"
    /\ inst.wr.access_token = out.seq
    /\ inst.wr.expires_in < out.seq

\* A refresh has been applied and another, called before that, is still
\* suspended on its round-trip.
RaceMidpoint ==
    /\ applied = 1
    /\ inst.wr.access_token = 1
    /\ \E t \in Tasks : tasks[t].pc = "post" /\ tasks[t].kind = "refresh" /\ tasks[t].seq0 = 0

\* A step into a state whose access_token is the first response's and whose
\* expiry clock is the second's.
TornStep ==
    /\ Next
    /\ inst'.wr.access_token = 1
    /\ inst'.wr.expires_in = 2 \/ inst'.wr.last_authorized_time = 2

\* C8 as stated: between two racing refreshes a state with the first
\* response's access_token and the second response's expiry clock can be
\* reached.
C8_TornReadObservable == RaceMidpoint => ENABLED TornStep

\* C8 as amended: the expiry clock is never of a later response than the
\* access_token, and after a refresh that succeeded every field it writes and
\* the clock are of its response, the last one applied.
C8_LastWriterWins ==
    /\ inst.wr.expires_in <= inst.wr.access_token
    /\ inst.wr.last_authorized_time <= inst.wr.access_token
    /\ (out.op = "refresh" /\ out.exc = NoExc)
         => /\ out.seq = applied
            /\ inst.wr.last_authorized_time = applied
            /\ \A f \in WrittenFields(inst.cls) : inst.wr[f] = applied

C8_Witness ==
    /\ out.op = "refresh"
    /\ out.exc = NoExc
    /\ out.seq = 2
    /\ out.seq0 = 0
    /\ inst.wr.access_token = 2
    /\ inst.wr.expires_in = 2

\* The required keys the payload of the constructor call just made lacked.
Lacking == Required(Grant(out.cls)) \ out.keys

\* C9 as stated: a constructor given a payload that lacks a required key
\* raises ValidationError.
C9_ConstructorValidationError ==
    (out.op = "__init__" /\ Lacking # {}) => out.exc.type = "ValidationError"

\* C9 as amended: such a constructor call raises KeyError for a key the
\* payload lacks and builds nothing; a payload with every required key builds
\* the instance, with refresh_token None when a UserCredentials payload has
\* none; no constructor call starts a coroutine or a POST.
C9_ConstructorKeyError ==
    /\ [](out.op = "__init__"
            => IF Lacking # {}
               THEN /\ out.exc.type = "KeyError"
                    /\ out.exc.key \in Lacking
                    /\ inst = NoInstance
               ELSE /\ out.exc = NoExc
                    /\ inst.cls = out.cls
                    /\ out.cls = "UserCredentials" => inst.refresh_token = SeenRefreshToken)
    /\ [][out'.op = "__init__" => UNCHANGED <<tasks, calls, applied>>]_vars

C9_Witness ==
    /\ out.op = "__init__"
    /\ out.cls = "UserCredentials"
    /\ Lacking = {"scope"}
    /\ out.exc = KeyError("scope")
    /\ inst = NoInstance

\* C10: after any refresh step the fields a refresh writes and the clock are
\* all of one response (or all of the constructor).
C10_RefreshAllOrNothing ==
    \A f \in WrittenFields(inst.cls) : inst.wr[f] = inst.wr.last_authorized_time

====
